---- MODULE Spec2Model ----
(***************************************************************************)
(* Model of the automated acquisition orchestrator                         *)
(* (src/src/services/aipptDownloader.js): the shared browser manager       *)
(* getSharedBrowser and the request function downloadAipptTemplate.         *)
(*                                                                         *)
(* JavaScript runs one job at a time: the code between two awaits is one   *)
(* atomic step.  A promise settling and the continuations of everything    *)
(* awaiting it run as one chain of microtasks, so LaunchSettle resumes all *)
(* awaiters of the launch within the same step, in registration order.     *)
(*                                                                         *)
(* Browsers and launch promises are numbered by the launch that made them; *)
(* 0 stands for null.                                                       *)
(*                                                                         *)
(* The HTTP handlers that stream a returned Artifact to the client         *)
(* (src/unnamed/part_001) are modelled by the variable http, the token     *)
(* check of the handlers of both server files (src/unnamed/part_000 and    *)
(* part_001) by the variable tok.                                          *)
(***************************************************************************)
EXTENDS Integers, Sequences, FiniteSets, TLC

VARIABLES sharedBrowser, launchingBrowser, pending, connected, nLaunch,
          waitq, req, stateFile, mat, http, tok

vars == <<sharedBrowser, launchingBrowser, pending, connected, nLaunch,
          waitq, req, stateFile, mat, http, tok>>

\* ------------------------------------------------------------------ bounds
\* Requests in flight at once under Spec (full acquisitions).
NumReqs == 1
\* Concurrent callers under SpecMgr (acquisitions up to the browser hand-out).
NumCallers == 3
\* Browser launches over a whole run.
MaxLaunches == 3
\* Chunks of the file piped to the response during one transfer.
MaxChunks == 3

LaunchIds == 1..MaxLaunches

\* ------------------------------------------------------------------ inputs
\* URLs are sequences of characters so that the prefix test is computed.
UrlHttp == <<"h", "t", "t", "p", ":", "/", "/", "a">>
UrlHttps == <<"h", "t", "t", "p", "s", ":", "/", "/", "a">>
UrlFtp == <<"f", "t", "p", ":", "/", "/", "a">>
UrlRel == <<"a", "/", "b">>
UrlUpper == <<"H", "T", "T", "P", ":", "/", "/", "a">>
UrlOneSlash == <<"h", "t", "t", "p", ":", "/", "a">>
UrlInner == <<"x", "h", "t", "t", "p", ":", "/", "/", "a">>
UrlEmpty == <<>>
Urls == {UrlHttp, UrlHttps, UrlFtp, UrlRel, UrlUpper, UrlOneSlash, UrlInner, UrlEmpty}

\* Values of process.env.AIPPT_USERNAME / AIPPT_PASSWORD; "" is unset or empty.
EnvValues == {"", "secret"}

HasPrefix(s, pre) == Len(s) >= Len(pre) /\ SubSeq(s, 1, Len(pre)) = pre

\* The same pattern without its anchor.
IsHttpUrlNoAnchor(u) ==
    \E i \in 0..Len(u) :
        \/ HasPrefix(SubSeq(u, i + 1, Len(u)), <<"h", "t", "t", "p", ":", "/", "/">>)
        \/ HasPrefix(SubSeq(u, i + 1, Len(u)), <<"h", "t", "t", "p", "s", ":", "/", "/">>)

\* /^https?:\/\//.test(templateUrl)
IsHttpUrl(u) ==
    \/ HasPrefix(u, <<"h", "t", "t", "p", ":", "/", "/">>)
    \/ HasPrefix(u, <<"h", "t", "t", "p", "s", ":", "/", "/">>)

\* What the three listeners of one invocation, and the popup, delivered.
\* popup: "none" no popup opened; "spont" the popup raised a download by
\* itself; "ctlDl" / "ctlNoDl" it did not, a download control was found in
\* it, and the click was / was not followed by a download; "noCtl" it did
\* not and no control was found.
PopupKinds == {"none", "spont", "ctlDl", "ctlNoDl", "noCtl"}
NoFired == [dl |-> FALSE, popup |-> "none", resp |-> FALSE]
Fireds == [dl : BOOLEAN, popup : PopupKinds, resp : BOOLEAN]

\* ------------------------------------------------------------------ state
\* One request slot.  Fields marked (ghost) record what the call has done and
\* are never read by the modelled code.
IdleReq ==
    [pc |-> "idle",
     browser |-> 0,        \* the local variable browser
     awaits |-> 0,         \* the launch promise this call is suspended on
     own |-> FALSE,        \* suspended at line 33 (its own launch) or at line 12
     ctxTry |-> 0,         \* which newContext call is outstanding (1: line 59, 2: line 63)
     tmp |-> FALSE,        \* the request's temporary directory exists
     ctxOpen |-> 0,        \* contexts created by this call and not closed
     err |-> "none",       \* the error the call failed with
     cfgBad |-> FALSE,     \* (ghost) the inputs break a precondition
     sawFail |-> FALSE,    \* (ghost) a launch this call awaited at line 12 failed
     touched |-> FALSE,    \* (ghost) the call created a directory, asked for the
                           \* browser or looked at the snapshot file
     login |-> FALSE,      \* isLoginRequired
     seen |-> <<>>,        \* (ghost) <<the buttons of the page>> right after line 94
     submit |-> "none",    \* (ghost) how the submit of lines 216-221 went
     wrote |-> FALSE,      \* (ghost) line 225 wrote the snapshot file
     i |-> 0,              \* loop counter of the retry loop (lines 198, 227)
     j |-> 0,              \* position in the candidates list (line 123)
     clickedSel |-> 0,     \* (ghost) what was clicked: 1..6 a candidate, 7 last resort
     rejected |-> {},      \* (ghost) candidates probed and found absent or refusing
     missed |-> FALSE,     \* (ghost) a candidate that accepts a click was passed over
     download |-> "none",  \* the variable download: the signal kind, or none (null)
     fired |-> NoFired,    \* (ghost) what the listeners of the last invocation saw
     threw |-> FALSE,      \* (ghost) the last invocation threw 'button not found'
     armed |-> FALSE,      \* (ghost) the three listeners of lines 107-119 are set up
     awaited |-> FALSE,    \* (ghost) the invocation awaited a listener (line 170 on)
     unlabelled |-> FALSE, \* (ghost) the click of line 134/140 hit the tracking-only
                           \*         candidate while its text lacked the label
     settle |-> <<>>,      \* (ghost) <<failed sub-steps, sub-steps run>> of line 84
     clicks |-> <<>>,      \* (ghost) <<entry click, switch click>> of lines 207-210
     calls |-> 0,          \* (ghost) invocations of clickImmediateDownload
     waits |-> 0,          \* (ghost) settlement waits of lines 201, 230
     file |-> FALSE,       \* (ghost) the file was saved or written (lines 242, 260)
     notFound |-> 0]       \* (ghost) invocations that threw 'button not found'

Cur ==
    [sb |-> sharedBrowser, lb |-> launchingBrowser, pend |-> pending,
     conn |-> connected, n |-> nLaunch, wq |-> waitq, req |-> req]

Commit(s) ==
    /\ sharedBrowser' = s.sb
    /\ launchingBrowser' = s.lb
    /\ pending' = s.pend
    /\ connected' = s.conn
    /\ nLaunch' = s.n
    /\ waitq' = s.wq
    /\ req' = s.req

\* ------------------------------------------------------- getSharedBrowser
\* sharedBrowser && sharedBrowser.isConnected()
SharedUsable(s) == s.sb # 0 /\ s.sb \in s.conn

\* getSharedBrowser returned b to request p (line 50 or line 62): the request
\* goes on, synchronously, to issue browser.newContext (line 59 or line 63).
GsbReturn(s, p, b) ==
    [s EXCEPT !.req[p] = [@ EXCEPT !.browser = b, !.awaits = 0, !.own = FALSE,
                                   !.ctxTry = @ + 1, !.touched = TRUE,
                                   !.pc = "newContext"]]

\* Lines 15-33: start a launch, publish its promise, suspend on it.
GsbLaunch(s, p) ==
    LET k == s.n + 1 IN
    [s EXCEPT !.n = k, !.lb = k, !.pend = @ \cup {k},
              !.wq = Append(@, p),
              !.req[p] = [@ EXCEPT !.awaits = k, !.own = TRUE, !.touched = TRUE,
                                   !.pc = "gsbAwait"]]

\* Lines 11-12: a launch is in flight, suspend on its promise.
GsbWait(s, p) ==
    [s EXCEPT !.wq = Append(@, p),
              !.req[p] = [@ EXCEPT !.awaits = s.lb, !.own = FALSE, !.touched = TRUE,
                                   !.pc = "gsbAwait"]]

\* Lines 10-15, up to the first await.
GsbEnter(s, p) ==
    IF SharedUsable(s) THEN GsbReturn(s, p, s.sb)
    ELSE IF s.lb # 0 THEN GsbWait(s, p)
    ELSE GsbLaunch(s, p)

\* The request fails with e; no cleanup runs on this path (the caller of
\* getSharedBrowser is outside the try/finally of lines 68-265).
ThrowOutsideTry(s, p, e) ==
    [s EXCEPT !.req[p] = [@ EXCEPT !.pc = "failed", !.err = e, !.awaits = 0,
                                   !.own = FALSE, !.browser = 0, !.ctxTry = 0]]

\* Line 12-13 after the awaited launch settled: the error is ignored, and the
\* caller launches unless a connected browser is cached.
GsbAfterWait(s, p, ok) ==
    LET s1 == [s EXCEPT !.req[p].sawFail = ~ok] IN
    IF SharedUsable(s1) THEN GsbReturn(s1, p, s1.sb) ELSE GsbLaunch(s1, p)

\* Line 33 after the caller's own launch settled.
GsbAfterOwn(s, p, k, ok) ==
    LET s1 == [s EXCEPT !.req[p].sawFail = FALSE] IN
    IF ok THEN GsbReturn([s1 EXCEPT !.sb = k], p, k)
    ELSE ThrowOutsideTry(s1, p, "launch")

GsbResume(s, p, k, ok) ==
    IF s.req[p].own THEN GsbAfterOwn(s, p, k, ok) ELSE GsbAfterWait(s, p, ok)

RECURSIVE ResumeAll(_, _, _, _)
ResumeAll(s, ps, k, ok) ==
    IF ps = <<>> THEN s
    ELSE ResumeAll(GsbResume(s, Head(ps), k, ok), Tail(ps), k, ok)

\* Lines 25-32: the callbacks of the launch promise.
LaunchThen(s, k) ==
    [s EXCEPT !.sb = k, !.lb = 0, !.pend = @ \ {k}, !.conn = @ \cup {k}]

LaunchCatch(s, k) ==
    [s EXCEPT !.lb = 0, !.pend = @ \ {k}]

\* chromium.launch of launch k resolves (ok) or rejects.
LaunchSettle(k, ok) ==
    /\ k \in pending
    /\ LET s == Cur
           Waits(p) == s.req[p].awaits = k
           Others(p) == s.req[p].awaits # k
           s0 == [s EXCEPT !.wq = SelectSeq(@, Others)]
           s1 == IF ok THEN LaunchThen(s0, k) ELSE LaunchCatch(s0, k)
           s2 == ResumeAll(s1, SelectSeq(s.wq, Waits), k, ok)
       IN /\ s2.n <= MaxLaunches
          /\ Commit(s2)
    /\ UNCHANGED <<stateFile, mat, http, tok>>

\* A handler that leaves the cached reference in place.
OnDisconnectedKeepsCache(s, b) ==
    [s EXCEPT !.conn = @ \ {b}]

\* The 'disconnected' event of browser b (crash, external kill): line 29.
OnDisconnected(s, b) ==
    [s EXCEPT !.conn = @ \ {b}, !.sb = 0]

Disconnect(b) ==
    /\ b \in connected
    /\ Commit(OnDisconnected(Cur, b))
    /\ UNCHANGED <<stateFile, mat, http, tok>>

\* ------------------------------------------------- downloadAipptTemplate
\* Lines 38-50: validate, create the temporary directory, ask for the browser.
ValidateNoAnchor(url, user, pass) ==
    IF ~IsHttpUrlNoAnchor(url) THEN "Invalid template URL"
    ELSE IF user = "" \/ pass = "" THEN "Missing AIPPT_USERNAME/AIPPT_PASSWORD"
    ELSE "ok"

Validate(url, user, pass) ==
    IF ~IsHttpUrl(url) THEN "Invalid template URL"
    ELSE IF user = "" \/ pass = "" THEN "Missing AIPPT_USERNAME/AIPPT_PASSWORD"
    ELSE "ok"

BadInput(url, user, pass) ==
    \/ ~(\/ HasPrefix(url, <<"h", "t", "t", "p", ":", "/", "/">>)
         \/ HasPrefix(url, <<"h", "t", "t", "p", "s", ":", "/", "/">>))
    \/ user = ""
    \/ pass = ""

\* v is what the validation of lines 38-45 answered for the inputs; bad
\* says whether the inputs break a precondition.
Begin(s, p, v, bad) ==
    LET r0 == [IdleReq EXCEPT !.cfgBad = bad]
    IN IF v # "ok"
       THEN [s EXCEPT !.req[p] = [r0 EXCEPT !.pc = "failed", !.err = v]]
       ELSE GsbEnter([s EXCEPT !.req[p] = [r0 EXCEPT !.tmp = TRUE, !.touched = TRUE]], p)

\* The validation's answer on every input, next to whether the input is bad.
Checked ==
    {<<Validate(url, user, pass), BadInput(url, user, pass)>> :
        url \in Urls, user \in EnvValues, pass \in EnvValues}

\* A request arrives in slot p (a slot is free again once its call ended).
Start(p) ==
    /\ req[p].pc \in {"idle", "done", "failed"}
    /\ \E c \in Checked :
          LET s == Begin(Cur, p, c[1], c[2])
          IN s.n <= MaxLaunches /\ Commit(s)
    /\ UNCHANGED <<stateFile, mat, http, tok>>

\* The browser the request holds is still connected: only then can an engine
\* call of the request succeed.
Alive(p) == req[p].browser \in connected

\* Lines 262-265: the finally block closes the context, never the browser.
Finally(s, p, pc2, e) ==
    [s EXCEPT !.req[p] = [@ EXCEPT !.ctxOpen = @ - 1, !.pc = pc2, !.err = e,
                                   !.browser = 0, !.ctxTry = 0]]

\* Lines 59, 63: the storageState option is the file when it exists.  The
\* client reads and parses the file before it reaches the browser, so with a
\* corrupt file newContext throws the read error whatever the browser does.
SnapshotReadable == stateFile # "corrupt"

ContextError == IF SnapshotReadable THEN "context" ELSE "snapshot"

\* A context creation that gives up at the first failure.
ContextFailedNoRetry(s, p) == ThrowOutsideTry(s, p, ContextError)

\* Lines 57-64: browser.newContext resolves (ok) or throws.  The first failure
\* is caught and the browser is asked for again (line 62); the second is not.
ContextFailed(s, p) ==
    IF s.req[p].ctxTry = 1 THEN GsbEnter([s EXCEPT !.req[p].sawFail = FALSE], p)
    ELSE ThrowOutsideTry(s, p, ContextError)

ContextMade(s, p) ==
    [s EXCEPT !.req[p] = [@ EXCEPT !.ctxOpen = @ + 1, !.sawFail = FALSE, !.ctxTry = 0,
                                   !.pc = "newPage"]]

NewContext(p, ok) ==
    /\ req[p].pc = "newContext"
    /\ ok => Alive(p) /\ SnapshotReadable
    /\ LET s == IF ok THEN ContextMade(Cur, p) ELSE ContextFailed(Cur, p)
       IN s.n <= MaxLaunches /\ Commit(s)
    /\ UNCHANGED <<stateFile, mat, http, tok>>

\* Line 65: context.newPage(), still outside the try block of line 68.
PageFailed(s, p) == ThrowOutsideTry(s, p, "page")

NewPage(p, ok) ==
    /\ req[p].pc = "newPage"
    /\ ok => Alive(p)
    /\ Commit(IF ok THEN [Cur EXCEPT !.req[p].pc = "goto"] ELSE PageFailed(Cur, p))
    /\ UNCHANGED <<stateFile, mat, http, tok>>

\* Lines 78-83: the sub-steps of waitForPageSettled, in order, and the
\* sets of failing sub-steps tried.
SettleSteps == <<"domcontentloaded", "networkidle", "complete", "delay">>
SettleFails ==
    {{}, {"domcontentloaded"}, {"networkidle"}, {"complete"}, {"delay"},
     {"domcontentloaded", "networkidle", "complete", "delay"}}

\* A settlement whose first failing sub-step throws.
WaitForPageSettledUncaught(fails) ==
    LET bad == {n \in 1..Len(SettleSteps) : SettleSteps[n] \in fails}
    IN IF bad = {} THEN [ran |-> Len(SettleSteps), threw |-> FALSE]
       ELSE [ran |-> CHOOSE n \in bad : \A m \in bad : n <= m, threw |-> TRUE]

\* Lines 78-83: each sub-step is in its own try/catch (or has a .catch), so
\* the next one runs whether it failed or not.
RECURSIVE SettleFrom(_, _)
SettleFrom(fails, n) ==
    IF n > Len(SettleSteps) THEN [ran |-> n - 1, threw |-> FALSE]
    ELSE SettleFrom(fails, n + 1)

WaitForPageSettled(fails) == SettleFrom(fails, 1)

\* Lines 75-86: page.goto throws or not; then the settlement of line 84.
\* What throws inside the try block goes to the finally block.
Goto(p, ok, fails) ==
    /\ req[p].pc = "goto"
    /\ ok => Alive(p)
    /\ ~ok => fails = {}     \* no settlement runs after a goto that threw
    /\ Commit(IF ~ok THEN Finally(Cur, p, "failed", "navigation")
              ELSE LET w == WaitForPageSettled(fails)
                   IN IF w.threw THEN Finally(Cur, p, "failed", "settle")
                      ELSE [Cur EXCEPT !.req[p].pc = "detect",
                                       !.req[p].settle = <<fails, w.ran>>])
    /\ UNCHANGED <<stateFile, mat, http, tok>>

\* Lines 89-94.  A button is described by what its text contains: the
\* combined label, both words apart, one of the words, neither.
ButtonKinds == {"combined", "loginAndRegister", "loginOnly", "registerOnly", "other"}
HasCombinedLabel(b) == b = "combined"
HasLoginText(b) == b \in {"combined", "loginAndRegister", "loginOnly"}
HasRegisterText(b) == b \in {"combined", "loginAndRegister", "registerOnly"}

\* The detection with a fallback that asks for the login word only.
IsLoginRequiredAnyLogin(buttons) ==
    IF \E b \in buttons : HasCombinedLabel(b) THEN TRUE
    ELSE \E b \in buttons : HasLoginText(b)

IsLoginRequired(buttons) ==
    IF \E b \in buttons : HasCombinedLabel(b) THEN TRUE
    ELSE \E b \in buttons : HasLoginText(b) /\ HasRegisterText(b)

\* Lines 198-199 / 227-228: the retry loop calls clickImmediateDownload.
Invoke(r) == [r EXCEPT !.pc = "attempt", !.calls = @ + 1]

\* The pages tried: the kinds of button on the page, no more than two.
Pages == {b \in SUBSET ButtonKinds : Cardinality(b) <= 2}

Detect(p) ==
    /\ req[p].pc = "detect"
    /\ \E buttons \in Pages :
          LET lr == IsLoginRequired(buttons)
              r == [req[p] EXCEPT !.login = lr, !.seen = <<buttons>>, !.settle = <<>>]
          IN req' = [req EXCEPT ![p] = IF lr THEN [r EXCEPT !.pc = "login"]
                                       ELSE Invoke(r)]
    /\ UNCHANGED <<sharedBrowser, launchingBrowser, pending, connected, nLaunch,
                   waitq, stateFile, mat, http, tok>>

\* How the click of line 207 goes, and the one of line 210 ("absent": the
\* control of line 208 is not on the page).
EntryClicks == {"ok", "threw"}
SwitchClicks == {"absent", "ok", "threw"}

\* A login that fails when one of its first clicks throws.
LoginOpenStrict(p, entry, switch) ==
    /\ req[p].pc = "login"
    /\ (entry = "ok" \/ switch = "ok") => Alive(p)
    /\ LET s == [Cur EXCEPT !.req[p].seen = <<>>]
       IN Commit(IF entry = "threw" \/ switch = "threw"
                 THEN Finally(s, p, "failed", "auth")
                 ELSE [s EXCEPT !.req[p].pc = "fill", !.req[p].clicks = <<entry, switch>>])
    /\ UNCHANGED <<stateFile, mat, http, tok>>

\* Lines 207-211: the click that opens the login dialog and the click that
\* switches it to the password form, both best effort (.catch).
LoginOpen(p, entry, switch) ==
    /\ req[p].pc = "login"
    /\ (entry = "ok" \/ switch = "ok") => Alive(p)
    /\ req' = [req EXCEPT ![p] = [@ EXCEPT !.seen = <<>>, !.pc = "fill",
                                           !.clicks = <<entry, switch>>]]
    /\ UNCHANGED <<sharedBrowser, launchingBrowser, pending, connected, nLaunch,
                   waitq, stateFile, mat, http, tok>>

\* Lines 213-214: the two fills, whose failure nothing catches.
LoginFill(p, fillAccount, fillPassword) ==
    /\ req[p].pc = "fill"
    /\ (fillAccount \/ fillPassword) => Alive(p)
    /\ LET s == [Cur EXCEPT !.req[p].clicks = <<>>]
       IN Commit(IF fillAccount /\ fillPassword
                 THEN [s EXCEPT !.req[p].pc = "submit"]
                 ELSE Finally(s, p, "failed", "fill"))
    /\ UNCHANGED <<stateFile, mat, http, tok>>

\* How the submit goes: neither submit control exists (the click of line 220
\* times out), the click on a control throws, the click goes through and the
\* site rejects the credentials, the site accepts them.
SubmitKinds == {"noControl", "clickThrew", "rejected", "accepted"}

\* A login that fails when the submit cannot be clicked.
LoginSubmitStrict(p, submit, saved) ==
    /\ req[p].pc = "submit"
    /\ submit \in {"rejected", "accepted"} => Alive(p)
    /\ saved => Alive(p)
    /\ IF submit \in {"noControl", "clickThrew"}
       THEN /\ Commit(Finally([Cur EXCEPT !.req[p].submit = submit], p, "failed", "auth"))
            /\ stateFile' = stateFile
       ELSE /\ req' = [req EXCEPT ![p] = Invoke([@ EXCEPT !.submit = submit, !.wrote = saved])]
            /\ stateFile' = IF saved THEN "valid" ELSE stateFile
            /\ UNCHANGED <<sharedBrowser, launchingBrowser, pending, connected, nLaunch, waitq>>
    /\ UNCHANGED <<mat, http, tok>>

\* Lines 216-228: the submit click (its failure swallowed), the settlement,
\* the storage state saved or not (line 225, its failure swallowed), then
\* the first invocation of the retry loop.
LoginSubmit(p, submit, saved) ==
    /\ req[p].pc = "submit"
    /\ submit \in {"rejected", "accepted"} => Alive(p)
    /\ saved => Alive(p)
    /\ req' = [req EXCEPT ![p] = Invoke([@ EXCEPT !.submit = submit, !.wrote = saved])]
    /\ stateFile' = IF saved THEN "valid" ELSE stateFile
    /\ UNCHANGED <<sharedBrowser, launchingBrowser, pending, connected, nLaunch, waitq, mat, http, tok>>

\* ------------------------------------------------- clickImmediateDownload
\* Line 98: the candidates, in order.
Candidates ==
    <<"trackAndText", "track", "buttonText", "anchorText", "gradient", "ml3">>

\* What probing one candidate finds: no element; an element that takes the
\* normal click; one that takes only the forced click; one that takes neither.
ProbeKinds == {"absent", "click", "forced", "refuses"}

\* The same without the forced click of lines 139-143.
TryCandidateNoForce(sel, found, textHasLabel) == found = "click"

\* Lines 125-144 for one candidate: TRUE when it was clicked.  textHasLabel
\* is the test of line 130, whose branch is empty.
TryCandidate(sel, found, textHasLabel) == found \in {"click", "forced"}

\* Lines 149-165: the document query over three selectors; an element counts
\* only when its text holds the label.
LastResortSels == <<"track", "gradient", "ml3">>
ElemKinds == {"absent", "noLabel", "label"}
LastResortDoms == [1..Len(LastResortSels) -> ElemKinds]

LastResortClick(els) == \E n \in 1..Len(LastResortSels) : els[n] = "label"

\* The signals with the network response taken first.
ResolveSignalResponseFirst(f) ==
    IF f.resp THEN "response"
    ELSE IF f.dl THEN "native"
    ELSE IF f.popup = "spont" THEN "popup"
    ELSE IF f.popup = "ctlDl" THEN "popupClick"
    ELSE "none"

\* Lines 170-190: which signal the invocation returns.
ResolveSignal(f) ==
    IF f.dl THEN "native"
    ELSE IF f.popup = "spont" THEN "popup"
    ELSE IF f.popup = "ctlDl" THEN "popupClick"
    ELSE IF f.resp THEN "response"
    ELSE "none"

\* One invocation, step by step (specification SpecEngine).
EngineStart(r) ==
    [r EXCEPT !.pc = "probe", !.j = 1, !.clickedSel = 0, !.rejected = {},
              !.missed = FALSE, !.fired = NoFired, !.threw = FALSE,
              !.armed = TRUE, !.awaited = FALSE, !.unlabelled = FALSE,
              !.download = "none"]

EngineInvoke(p) ==
    /\ req[p].pc = "returned"
    /\ req' = [req EXCEPT ![p] = EngineStart(@)]
    /\ UNCHANGED <<sharedBrowser, launchingBrowser, pending, connected, nLaunch,
                   waitq, stateFile, mat, http, tok>>

Probe(p, found, textHasLabel) ==
    /\ req[p].pc = "probe"
    /\ LET r == req[p]
           sel == Candidates[r.j]
           hit == TryCandidate(sel, found, textHasLabel)
           r1 == [r EXCEPT !.missed = @ \/ (found \in {"click", "forced"} /\ ~hit),
                           !.rejected = IF found \in {"absent", "refuses"}
                                        THEN @ \cup {r.j} ELSE @]
       IN req' = [req EXCEPT ![p] =
                    IF hit THEN [r1 EXCEPT !.clickedSel = r.j, !.pc = "signal",
                                           !.unlabelled = (sel = "track" /\ ~textHasLabel)]
                    ELSE IF r.j < Len(Candidates) THEN [r1 EXCEPT !.j = @ + 1]
                    ELSE [r1 EXCEPT !.pc = "lastResort"]]
    /\ UNCHANGED <<sharedBrowser, launchingBrowser, pending, connected, nLaunch,
                   waitq, stateFile, mat, http, tok>>

\* The last resort going on to the listeners although it clicked nothing.
LastResortAwaits(p) ==
    /\ req[p].pc = "lastResort"
    /\ \E els \in LastResortDoms :
          req' = [req EXCEPT ![p] =
                    IF LastResortClick(els)
                    THEN [@ EXCEPT !.clickedSel = 7, !.pc = "signal"]
                    ELSE [@ EXCEPT !.pc = "signal"]]
    /\ UNCHANGED <<sharedBrowser, launchingBrowser, pending, connected, nLaunch,
                   waitq, stateFile, mat, http, tok>>

\* Lines 147-167: the document query, and the throw when it clicked nothing.
LastResort(p) ==
    /\ req[p].pc = "lastResort"
    /\ \E els \in LastResortDoms :
          req' = [req EXCEPT ![p] =
                    IF LastResortClick(els)
                    THEN [@ EXCEPT !.clickedSel = 7, !.pc = "signal"]
                    ELSE [@ EXCEPT !.threw = TRUE, !.pc = "returned"]]
    /\ UNCHANGED <<sharedBrowser, launchingBrowser, pending, connected, nLaunch,
                   waitq, stateFile, mat, http, tok>>

\* Lines 169-190: every listener has a timeout and resolves to null when it
\* passes, so each await of the block ends, with or without its event.
Signal(p) ==
    /\ req[p].pc = "signal"
    /\ \E f \in Fireds :
          req' = [req EXCEPT ![p] = [@ EXCEPT !.fired = f, !.download = ResolveSignal(f),
                                              !.awaited = TRUE, !.pc = "returned"]]
    /\ UNCHANGED <<sharedBrowser, launchingBrowser, pending, connected, nLaunch,
                   waitq, stateFile, mat, http, tok>>

\* The same invocation as one step (specification Spec).  A page gives, for
\* each candidate, what probing it finds.
SamplePages ==
    {[n \in 1..Len(Candidates) |-> IF n = k THEN kind ELSE other] :
        k \in 1..Len(Candidates), kind \in ProbeKinds, other \in {"absent", "refuses"}}

RECURSIVE ClickLoop(_, _)
ClickLoop(page, n) ==
    IF n > Len(Candidates) THEN 0
    ELSE IF TryCandidate(Candidates[n], page[n], TRUE) THEN n
    ELSE ClickLoop(page, n + 1)

\* "notFound" when line 167 throws, otherwise the signal or "none".
ClickImmediateDownload(page, els, f) ==
    IF ClickLoop(page, 1) = 0 /\ ~LastResortClick(els) THEN "notFound"
    ELSE ResolveSignal(f)

\* The loop without its counter: it goes on until a signal comes.
AttemptEndNoBudget(s, p, out) ==
    LET sig == IF out = "notFound" THEN "none" ELSE out
        r == [s.req[p] EXCEPT !.download = sig, !.seen = <<>>,
                              !.submit = "none", !.wrote = FALSE]
    IN IF sig # "none" THEN [s EXCEPT !.req[p] = [r EXCEPT !.pc = "materialize"]]
       ELSE [s EXCEPT !.req[p] = [r EXCEPT !.pc = "attempt"]]

\* The loop with a budget of four invocations.
AttemptEndFourTries(s, p, out) ==
    LET sig == IF out = "notFound" THEN "none" ELSE out
        r == [s.req[p] EXCEPT !.download = sig, !.seen = <<>>,
                              !.submit = "none", !.wrote = FALSE,
                              !.waits = IF sig = "none" THEN @ + 1 ELSE @,
                              !.notFound = IF out = "notFound" THEN @ + 1
                                           ELSE IF sig # "none" THEN 0 ELSE @]
    IN IF sig # "none" THEN [s EXCEPT !.req[p] = [r EXCEPT !.pc = "materialize"]]
       ELSE IF r.i + 1 < 4 THEN [s EXCEPT !.req[p] = Invoke([r EXCEPT !.i = @ + 1])]
       ELSE Finally([s EXCEPT !.req[p] = [r EXCEPT !.i = @ + 1]], p, "failed", "notStarted")

\* The loop with a budget of two invocations.
AttemptEndTwoTries(s, p, out) ==
    LET sig == IF out = "notFound" THEN "none" ELSE out
        r == [s.req[p] EXCEPT !.download = sig, !.seen = <<>>,
                              !.submit = "none", !.wrote = FALSE,
                              !.waits = IF sig = "none" THEN @ + 1 ELSE @,
                              !.notFound = IF out = "notFound" THEN @ + 1
                                           ELSE IF sig # "none" THEN 0 ELSE @]
    IN IF sig # "none" THEN [s EXCEPT !.req[p] = [r EXCEPT !.pc = "materialize"]]
       ELSE IF r.i + 1 < 2 THEN [s EXCEPT !.req[p] = Invoke([r EXCEPT !.i = @ + 1])]
       ELSE Finally([s EXCEPT !.req[p] = [r EXCEPT !.i = @ + 1]], p, "failed", "notStarted")

\* Lines 198-203 / 227-237: .catch(() => null) turns a throw into no signal;
\* the loop goes on while there is no signal and fewer than 3 invocations.
AttemptEnd(s, p, out) ==
    LET sig == IF out = "notFound" THEN "none" ELSE out
        r == [s.req[p] EXCEPT !.download = sig, !.seen = <<>>,
                              !.submit = "none", !.wrote = FALSE,
                              !.waits = IF sig = "none" THEN @ + 1 ELSE @,
                              !.notFound = IF out = "notFound" THEN @ + 1
                                           ELSE IF sig # "none" THEN 0 ELSE @]
    IN IF sig # "none" THEN [s EXCEPT !.req[p] = [r EXCEPT !.pc = "materialize"]]
       ELSE IF r.i + 1 < 3 THEN [s EXCEPT !.req[p] = Invoke([r EXCEPT !.i = @ + 1])]
       ELSE Finally([s EXCEPT !.req[p] = [r EXCEPT !.i = @ + 1]], p, "failed", "notStarted")

\* Every way an invocation can end on the sample pages.
EngineOutcomes ==
    {ClickImmediateDownload(page, els, f) :
        page \in SamplePages, els \in LastResortDoms, f \in Fireds}

\* With the browser gone every engine call throws, which the loop reads as
\* no signal.
Attempt(p) ==
    /\ req[p].pc = "attempt"
    /\ \E out \in EngineOutcomes :
          /\ out # "none" => Alive(p)
          /\ Commit(AttemptEnd(Cur, p, out))
    /\ UNCHANGED <<stateFile, mat, http, tok>>

\* Lines 238-261: save the download, or write the response body; either can
\* fail.  The returned cleanup removes the temporary directory.
Materialize(p, ok) ==
    /\ req[p].pc = "materialize"
    /\ ok => Alive(p)
    /\ Commit(IF ok THEN Finally([Cur EXCEPT !.req[p].file = TRUE], p, "done", "none")
              ELSE Finally(Cur, p, "failed", "write"))
    /\ UNCHANGED <<stateFile, mat, http, tok>>

\* The invocation inside the retry loop, step by step (specification
\* SpecLive): the loop calls it, it runs, and its result comes back to the
\* loop, a throw turned into null.
EngineBegin(p) ==
    /\ req[p].pc = "attempt"
    /\ req' = [req EXCEPT ![p] = EngineStart(@)]
    /\ UNCHANGED <<sharedBrowser, launchingBrowser, pending, connected, nLaunch,
                   waitq, stateFile, mat, http, tok>>

\* With the browser gone, the engine call the invocation is at throws.
EngineThrow(p) ==
    /\ req[p].pc \in {"probe", "lastResort", "signal"}
    /\ ~Alive(p)
    /\ req' = [req EXCEPT ![p] = [@ EXCEPT !.download = "none", !.pc = "returned"]]
    /\ UNCHANGED <<sharedBrowser, launchingBrowser, pending, connected, nLaunch,
                   waitq, stateFile, mat, http, tok>>

EngineReturn(p) ==
    /\ req[p].pc = "returned"
    /\ LET r == req[p]
           out == IF r.threw THEN "notFound" ELSE r.download
           s == [Cur EXCEPT !.req[p] = [r EXCEPT !.j = 0, !.clickedSel = 0,
                                                 !.rejected = {}, !.missed = FALSE,
                                                 !.fired = NoFired, !.threw = FALSE,
                                                 !.armed = FALSE, !.awaited = FALSE,
                                                 !.unlabelled = FALSE]]
       IN Commit(AttemptEnd(s, p, out))
    /\ UNCHANGED <<stateFile, mat, http, tok>>

\* ------------------------------------------------- response file name
\* Lines 245-261.  Header values and URLs are sequences of tokens: a token is
\* a piece of text without special characters ("x.pptx"), or one of
\*   "FN"    the text  filename=            "FNSTAR"  the text  filename*=UTF-8''
\*   "Q"     a double quote                 ";"       a semicolon
\*   " "     a space                        "%41"     a percent escape (of "A")
\*   "%"     a percent sign that starts no escape
\*   "/"     a slash                        ".."      two dots
\*   "?" "#" the start of the query and of the fragment of a URL
\*   "O"     the scheme and host of a URL.
GenericName == <<"aippt-download">>
\* The directory of line 46, as the list of its segments.
TmpDir == <<<<"tmp">>, <<"aippt-1">>>>

\* The end of the longest run of tokens outside stop that starts at i
\* (i - 1 when the run is empty).
RECURSIVE RunEnd(_, _, _)
RunEnd(h, i, stop) ==
    IF i > Len(h) \/ h[i] \in stop THEN i - 1 ELSE RunEnd(h, i + 1, stop)

\* filename\*=UTF-8''([^;]+) at position i: the captured group, or <<>>.
MatchStar(h, i) ==
    IF h[i] = "FNSTAR" THEN SubSeq(h, i + 1, RunEnd(h, i + 1, {";"})) ELSE <<>>

\* filename="?([^";]+)"? at position i: the captured group, or <<>>.
MatchPlain(h, i) ==
    IF h[i] # "FN" THEN <<>>
    ELSE IF i + 1 <= Len(h) /\ h[i + 1] = "Q"
         THEN SubSeq(h, i + 2, RunEnd(h, i + 2, {"Q", ";"}))
         ELSE SubSeq(h, i + 1, RunEnd(h, i + 1, {"Q", ";"}))

\* regex.exec(disp): the leftmost position where an alternative matches, the
\* first alternative tried first; <<>> stands for no match (null).
RECURSIVE DispositionMatch(_, _)
DispositionMatch(h, i) ==
    IF i > Len(h) THEN <<>>
    ELSE IF MatchStar(h, i) # <<>> THEN MatchStar(h, i)
    ELSE IF MatchPlain(h, i) # <<>> THEN MatchPlain(h, i)
    ELSE DispositionMatch(h, i + 1)

\* String.prototype.trim
RECURSIVE TrimLeft(_)
TrimLeft(s) == IF s # <<>> /\ Head(s) = " " THEN TrimLeft(Tail(s)) ELSE s

RECURSIVE TrimRight(_)
TrimRight(s) ==
    IF s # <<>> /\ s[Len(s)] = " " THEN TrimRight(SubSeq(s, 1, Len(s) - 1)) ELSE s

Trim(s) == TrimRight(TrimLeft(s))

\* decodeURIComponent: throws on a percent sign that starts no escape.
DecodeThrows(s) == \E n \in 1..Len(s) : s[n] = "%"
Decode(s) == [n \in 1..Len(s) |-> IF s[n] = "%41" THEN "A" ELSE s[n]]

\* new URL(u).pathname: from the first slash after the host up to the query
\* or fragment; "/" when the URL has no path.
PathName(u) ==
    LET rest == Tail(u)
        path == SubSeq(rest, 1, RunEnd(rest, 1, {"?", "#"}))
    IN IF path = <<>> THEN <<"/">> ELSE path

\* pathname.split('/').pop()
RECURSIVE LastSegment(_)
LastSegment(s) ==
    IF s = <<>> \/ s[Len(s)] = "/" THEN <<>>
    ELSE Append(LastSegment(SubSeq(s, 1, Len(s) - 1)), s[Len(s)])

\* path.join(tmpDir, name) as the list of its segments, normalised: empty
\* segments dropped, ".." removing the segment before it.
RECURSIVE JoinSegs(_, _, _)
JoinSegs(acc, cur, rest) ==
    LET push == IF cur = <<>> THEN acc
                ELSE IF cur = <<"..">> THEN (IF acc = <<>> THEN acc ELSE SubSeq(acc, 1, Len(acc) - 1))
                ELSE Append(acc, cur)
    IN IF rest = <<>> THEN push
       ELSE IF Head(rest) = "/" THEN JoinSegs(push, <<>>, Tail(rest))
       ELSE JoinSegs(acc, Append(cur, Head(rest)), Tail(rest))

PathJoin(name) == JoinSegs(TmpDir, <<>>, name)

\* path.basename
Basename(segs) == IF segs = <<>> THEN <<>> ELSE segs[Len(segs)]

\* Lines 248-257: the variable filename, or a throw of decodeURIComponent.
Threw == [threw |-> TRUE, filename |-> <<>>, path |-> <<>>, base |-> <<>>]

NameOf(name) ==
    [threw |-> FALSE, filename |-> name, path |-> PathJoin(name),
     base |-> Basename(PathJoin(name))]

ResponseFilename(hdr, url) ==
    LET m == DispositionMatch(hdr, 1)
        last == LastSegment(PathName(url))
    IN IF m # <<>>
       THEN (IF DecodeThrows(Trim(m)) THEN Threw ELSE NameOf(Decode(Trim(m))))
       ELSE IF last # <<>> THEN NameOf(last)
       ELSE NameOf(GenericName)

\* The content-disposition values and response URLs the derivation is run on.
Headers ==
    {<<>>,
     <<"attachment">>,
     <<"inline">>,
     <<"attachment", ";", " ", "FN", "Q", "x.pptx", "Q">>,
     <<"attachment", ";", " ", "FN", "x.pptx">>,
     <<"attachment", ";", " ", "FN", " ", "x.pptx", " ">>,
     <<"attachment", ";", " ", "FN", "Q", "x.pptx">>,
     <<"attachment", ";", " ", "FN", "Q", "my", " ", "deck.pptx", "Q">>,
     <<"attachment", ";", " ", "FN", "Q", "Q">>,
     <<"attachment", ";", " ", "FN", "Q", " ", "Q">>,
     <<"attachment", ";", " ", "FN">>,
     <<"attachment", ";", " ", "FNSTAR">>,
     <<"attachment", ";", " ", "FNSTAR", "%41", ".pptx">>,
     <<"attachment", ";", " ", "FN", "Q", "%41", ".pptx", "Q">>,
     <<"attachment", ";", " ", "FN", "Q", "50", "%", ".pptx", "Q">>,
     <<"attachment", ";", " ", "FNSTAR", "50", "%", ".pptx">>,
     <<"attachment", ";", " ", "FNSTAR", "b.pptx", ";", " ", "FN", "Q", "a.pptx", "Q">>,
     <<"attachment", ";", " ", "FN", "Q", "a.pptx", "Q", ";", " ", "FNSTAR", "b.pptx">>,
     <<"attachment", ";", " ", "FN", "Q", "..", "/", "x.pptx", "Q">>,
     <<"attachment", ";", " ", "FN", "Q", "d", "/", "x.pptx", "Q">>}

RespUrls ==
    {<<"O", "/", "files", "/", "report.pdf", "?", "x=1">>,
     <<"O", "/", "files", "/", "report.pdf">>,
     <<"O", "/", "files", "/">>,
     <<"O">>,
     <<"O", "/", "a.zip", "#", "frag">>,
     <<"O", "/", "get", "?", "f=", "/", "evil.pdf">>}

NoMat == [hdr |-> <<>>, url |-> <<"O">>, done |-> FALSE, out |-> Threw]

\* A network response reaches lines 245-257.
Derive ==
    /\ ~mat.done
    /\ mat' = [mat EXCEPT !.done = TRUE, !.out = ResponseFilename(mat.hdr, mat.url)]
    /\ UNCHANGED <<sharedBrowser, launchingBrowser, pending, connected, nLaunch,
                   waitq, req, stateFile, http, tok>>

\* ------------------------------------------------- serving the Artifact
\* GET and POST /api/aippt-download after downloadAipptTemplate returned.
\*   stream: the fs.ReadStream of the file: "flowing"; "ended" ('end' was
\*           emitted); "failed" ('error'); "closed" ('close'); "stalled"
\*           (unpiped when the response went away, paused for good)
\*   res:    the response: "open"; "ended" (res.end() or res.json() was
\*           called); "closed" ('close' was emitted); "crashed" (the process
\*           died of an unhandled 'error' event)
\*   timer:  the transfer timeout of the POST handler
NoHttp ==
    [handler |-> "none", tmp |-> FALSE, stream |-> "none", res |-> "none",
     headersSent |-> FALSE, timer |-> "none", sent |-> 0, cleanups |-> 0,
     threw |-> FALSE]

Handlers == {"get", "post"}

\* rmSync without the force option: a missing directory raises.
RmSyncNoForce(exists) == [exists |-> FALSE, threw |-> ~exists]

\* fs.rmSync(tmpDir, { recursive: true, force: true }): a missing directory
\* is no error.
RmSync(exists) == [exists |-> FALSE, threw |-> FALSE]

\* One call of the Artifact's cleanup function.
Cleanup(h) ==
    LET r == RmSync(h.tmp)
    IN [h EXCEPT !.tmp = r.exists, !.cleanups = @ + 1, !.threw = @ \/ r.threw]

ClearTimeout(h) == [h EXCEPT !.timer = IF @ = "armed" THEN "cleared" ELSE @]

Downloader ==
    <<sharedBrowser, launchingBrowser, pending, connected, nLaunch, waitq, req,
      stateFile, mat>>

\* The handler got the Artifact, set the headers, armed the timeout (POST),
\* registered its listeners and called stream.pipe(res).
HttpServe(handler) ==
    /\ http.handler = "none"
    /\ http' = [NoHttp EXCEPT !.handler = handler, !.tmp = TRUE, !.stream = "flowing",
                              !.res = "open",
                              !.timer = IF handler = "post" THEN "armed" ELSE "none"]
    /\ UNCHANGED <<Downloader, tok>>

\* A chunk is read and piped: the first write sends the headers.
StreamData ==
    /\ http.stream = "flowing" /\ http.res = "open"
    /\ http.sent < MaxChunks
    /\ http' = [http EXCEPT !.sent = @ + 1, !.headersSent = TRUE]
    /\ UNCHANGED <<Downloader, tok>>

\* The stream's 'end': the POST handler clears the timeout; pipe ends the
\* response.
StreamEnd ==
    /\ http.stream = "flowing"
    /\ LET h1 == IF http.handler = "post" THEN ClearTimeout(http) ELSE http
           h2 == IF h1.res = "open"
                 THEN [h1 EXCEPT !.res = "ended", !.headersSent = TRUE] ELSE h1
       IN http' = [h2 EXCEPT !.stream = "ended"]
    /\ UNCHANGED <<Downloader, tok>>

\* The stream's 'error'.  POST: clear the timeout, clean up, answer 500 when
\* no header went out (pipe leaves the response open otherwise).  GET: no
\* listener is registered, the event is thrown and ends the process.
StreamError ==
    /\ http.stream = "flowing"
    /\ IF http.handler = "post"
       THEN LET h1 == Cleanup(ClearTimeout(http))
                h2 == IF ~h1.headersSent /\ h1.res = "open"
                      THEN [h1 EXCEPT !.res = "ended", !.headersSent = TRUE] ELSE h1
            IN http' = [h2 EXCEPT !.stream = "failed"]
       ELSE http' = [http EXCEPT !.stream = "failed", !.res = "crashed"]
    /\ UNCHANGED <<Downloader, tok>>

\* The stream's 'close', after 'end' or 'error' (autoClose).  GET: clean up.
StreamClose ==
    /\ http.stream \in {"ended", "failed"} /\ http.res # "crashed"
    /\ LET h1 == IF http.handler = "get" THEN Cleanup(http) ELSE http
       IN http' = [h1 EXCEPT !.stream = "closed"]
    /\ UNCHANGED <<Downloader, tok>>

\* The response's 'close': after it was ended, or when the client went away.
\* pipe unpipes a stream still flowing, which pauses it; neither handler
\* destroys it.  POST: clear the timeout, clean up.
ResClose ==
    /\ http.res \in {"open", "ended"}
    /\ LET h1 == IF http.handler = "post" THEN Cleanup(ClearTimeout(http)) ELSE http
       IN http' = [h1 EXCEPT !.res = "closed",
                             !.stream = IF @ = "flowing" THEN "stalled" ELSE @]
    /\ UNCHANGED <<Downloader, tok>>

\* The transfer timeout of the POST handler fires.
TimerFire ==
    /\ http.timer = "armed" /\ http.res # "crashed"
    /\ LET h1 == [http EXCEPT !.timer = "fired"]
       IN http' = IF ~h1.headersSent
                  THEN [Cleanup(h1) EXCEPT !.res = "ended", !.headersSent = TRUE]
                  ELSE h1
    /\ UNCHANGED <<Downloader, tok>>

\* ------------------------------------------------- the token gate
\* The handlers of the two server files that hand out a file for a token:
\* GET and POST /api/aippt-download, which call downloadAipptTemplate, and
\* POST /api/download/:token.  One token row with max_downloads =
\* MaxDownloads; tok.used is its downloads_used, tok.served the files sent.
NumClients == 3
MaxDownloads == 1

Servers == {"part_000", "part_001"}
Routes == {"get", "post", "demo"}
\* The token of a request: none, one that no row has, the one of an expired
\* row, the one of the row.
TokenKinds == {"none", "unknown", "expired", "good"}

IdleClient == [pc |-> "idle", route |-> "none", token |-> "none", validated |-> FALSE]

NoTok ==
    [server |-> "part_001", used |-> 0, served |-> 0,
     cl |-> [c \in 1..NumClients |-> IdleClient]]

\* isTokenValid on the row the token finds.
IsTokenValid(token, used) == token = "good" /\ used < MaxDownloads

\* What a handler does with the token before it goes on: "deny" (400 or
\* 401), "pass" (isTokenValid accepted the row), "open" (the handler has no
\* check: POST /api/aippt-download of part_000).
Gate(server, route, token, used) ==
    IF server = "part_000" /\ route = "post" THEN "open"
    ELSE IF token = "none" THEN "deny"
    ELSE IF IsTokenValid(token, used) THEN "pass"
    ELSE "deny"

\* The handler counts the download: every one but the POST of part_000.
Counts(server, route) == ~(server = "part_000" /\ route = "post")

\* A request arrives and its handler runs up to the call of
\* downloadAipptTemplate; POST /api/download/:token, which calls nothing,
\* counts and answers at once.
Request(c, route, token) ==
    /\ tok.cl[c].pc = "idle"
    /\ LET g == Gate(tok.server, route, token, tok.used)
           r == [tok.cl[c] EXCEPT !.route = route, !.token = token,
                                  !.validated = (g = "pass")]
       IN tok' = IF g = "deny" THEN [tok EXCEPT !.cl[c] = [r EXCEPT !.pc = "rejected"]]
                 ELSE IF route = "demo"
                 THEN [tok EXCEPT !.cl[c] = [r EXCEPT !.pc = "served"],
                                  !.used = @ + 1, !.served = @ + 1]
                 ELSE [tok EXCEPT !.cl[c] = [r EXCEPT !.pc = "acquiring"]]
    /\ UNCHANGED <<Downloader, http>>

\* downloadAipptTemplate returns (ok) or throws: the handler counts the
\* download and pipes the file, or answers 500.
Finish(c, ok) ==
    /\ tok.cl[c].pc = "acquiring"
    /\ tok' = IF ok
              THEN [tok EXCEPT !.cl[c].pc = "served", !.served = @ + 1,
                               !.used = IF Counts(tok.server, tok.cl[c].route)
                                        THEN @ + 1 ELSE @]
              ELSE [tok EXCEPT !.cl[c].pc = "failed"]
    /\ UNCHANGED <<Downloader, http>>

\* --------------------------------------------------------- specifications
InitShared ==
    /\ sharedBrowser = 0
    /\ launchingBrowser = 0
    /\ pending = {}
    /\ connected = {}
    /\ nLaunch = 0
    /\ waitq = <<>>
    /\ stateFile \in {"absent", "valid", "corrupt"}
    /\ mat = NoMat
    /\ http = NoHttp
    /\ tok = NoTok

InitMgr ==
    /\ InitShared
    /\ req = [p \in 1..NumCallers |-> IdleReq]

NextMgr ==
    \/ \E p \in DOMAIN req : Start(p)
    \/ \E k \in LaunchIds, ok \in BOOLEAN : LaunchSettle(k, ok)
    \/ \E b \in LaunchIds : Disconnect(b)

SpecMgr == InitMgr /\ [][NextMgr]_vars

Init ==
    /\ InitShared
    /\ req = [p \in 1..NumReqs |-> IdleReq]

Next ==
    \/ \E p \in DOMAIN req : Start(p)
    \/ \E k \in LaunchIds, ok \in BOOLEAN : LaunchSettle(k, ok)
    \/ \E b \in LaunchIds : Disconnect(b)
    \/ \E p \in DOMAIN req, ok \in BOOLEAN : NewContext(p, ok)
    \/ \E p \in DOMAIN req, ok \in BOOLEAN : NewPage(p, ok)
    \/ \E p \in DOMAIN req, ok \in BOOLEAN, fails \in SettleFails : Goto(p, ok, fails)
    \/ \E p \in DOMAIN req : Detect(p)
    \/ \E p \in DOMAIN req, entry \in EntryClicks, switch \in SwitchClicks :
          LoginOpen(p, entry, switch)
    \/ \E p \in DOMAIN req, a \in BOOLEAN, b \in BOOLEAN : LoginFill(p, a, b)
    \/ \E p \in DOMAIN req, submit \in SubmitKinds, saved \in BOOLEAN :
          LoginSubmit(p, submit, saved)
    \/ \E p \in DOMAIN req : Attempt(p)
    \/ \E p \in DOMAIN req, ok \in BOOLEAN : Materialize(p, ok)

Spec == Init /\ [][Next]_vars

\* One invocation of clickImmediateDownload inside a request that holds a
\* page of a connected browser, in either branch and at any turn of the loop.
InitEngine ==
    /\ sharedBrowser = 1
    /\ launchingBrowser = 0
    /\ pending = {}
    /\ connected = {1}
    /\ nLaunch = 1
    /\ waitq = <<>>
    /\ stateFile \in {"absent", "valid"}
    /\ mat = NoMat
    /\ http = NoHttp
    /\ tok = NoTok
    /\ \E lr \in BOOLEAN, n \in 0..2 :
          req = [p \in 1..1 |->
                   EngineStart([IdleReq EXCEPT !.browser = 1, !.tmp = TRUE, !.touched = TRUE,
                                               !.ctxOpen = 1, !.login = lr,
                                               !.i = n, !.waits = n,
                                               !.calls = n + 1])]

NextEngine ==
    \/ \E p \in DOMAIN req, found \in ProbeKinds, lbl \in BOOLEAN : Probe(p, found, lbl)
    \/ \E p \in DOMAIN req : LastResort(p)
    \/ \E p \in DOMAIN req : Signal(p)
    \/ \E p \in DOMAIN req : EngineInvoke(p)

SpecEngine == InitEngine /\ [][NextEngine]_vars

\* The file name derivation on every sample header and URL.
InitName ==
    /\ sharedBrowser = 0
    /\ launchingBrowser = 0
    /\ pending = {}
    /\ connected = {}
    /\ nLaunch = 0
    /\ waitq = <<>>
    /\ stateFile = "absent"
    /\ req = [p \in 1..1 |-> IdleReq]
    /\ http = NoHttp
    /\ tok = NoTok
    /\ \E h \in Headers, u \in RespUrls :
          mat = [hdr |-> h, url |-> u, done |-> FALSE, out |-> Threw]

NextName == Derive

SpecName == InitName /\ [][NextName]_vars

\* One call followed through to its end, the engine step by step, with the
\* progress the event loop gives: a continuation that can run does run, an
\* armed timeout fires, a launch settles.  A call waits for another call
\* only at line 12, on a launch, which settles like its own.
StartOnce(p) == req[p].pc = "idle" /\ Start(p)

LiveStep(p) ==
    \/ \E ok \in BOOLEAN : NewContext(p, ok)
    \/ \E ok \in BOOLEAN : NewPage(p, ok)
    \/ \E ok \in BOOLEAN, fails \in SettleFails : Goto(p, ok, fails)
    \/ Detect(p)
    \/ \E entry \in EntryClicks, switch \in SwitchClicks : LoginOpen(p, entry, switch)
    \/ \E a \in BOOLEAN, b \in BOOLEAN : LoginFill(p, a, b)
    \/ \E submit \in SubmitKinds, saved \in BOOLEAN : LoginSubmit(p, submit, saved)
    \/ EngineBegin(p)
    \/ \E found \in ProbeKinds, lbl \in BOOLEAN : Probe(p, found, lbl)
    \/ LastResort(p)
    \/ Signal(p)
    \/ EngineThrow(p)
    \/ EngineReturn(p)
    \/ \E ok \in BOOLEAN : Materialize(p, ok)

LaunchEnds(k) == \E ok \in BOOLEAN : LaunchSettle(k, ok)

NextLive ==
    \/ \E p \in DOMAIN req : StartOnce(p)
    \/ \E k \in LaunchIds : LaunchEnds(k)
    \/ \E b \in LaunchIds : Disconnect(b)
    \/ \E p \in DOMAIN req : LiveStep(p)

InitLive ==
    /\ InitShared
    /\ req = [p \in 1..1 |-> IdleReq]

SpecLive ==
    /\ InitLive
    /\ [][NextLive]_vars
    /\ \A p \in 1..1 : WF_vars(LiveStep(p))
    /\ \A k \in LaunchIds : WF_vars(LaunchEnds(k))

\* One Artifact served by one of the handlers.
InitHttp ==
    /\ InitShared
    /\ stateFile = "absent"
    /\ req = [p \in 1..1 |-> IdleReq]

NextHttp ==
    \/ \E handler \in Handlers : HttpServe(handler)
    \/ StreamData
    \/ StreamEnd
    \/ StreamError
    \/ StreamClose
    \/ ResClose
    \/ TimerFire

SpecHttp == InitHttp /\ [][NextHttp]_vars

\* Concurrent requests for one token against one of the server files.
InitToken ==
    /\ sharedBrowser = 0
    /\ launchingBrowser = 0
    /\ pending = {}
    /\ connected = {}
    /\ nLaunch = 0
    /\ waitq = <<>>
    /\ stateFile = "absent"
    /\ req = [p \in 1..1 |-> IdleReq]
    /\ mat = NoMat
    /\ http = NoHttp
    /\ \E s \in Servers, u \in 0..MaxDownloads :
          tok = [NoTok EXCEPT !.server = s, !.used = u]

NextToken ==
    \/ \E c \in 1..NumClients, route \in Routes, token \in TokenKinds :
          Request(c, route, token)
    \/ \E c \in 1..NumClients, ok \in BOOLEAN : Finish(c, ok)

SpecToken == InitToken /\ [][NextToken]_vars

\* ---------------------------------------------------------------- claims
Ended(p) == req[p].pc \in {"done", "failed"}

\* C1: calls issued while no browser exists share one launch: a caller that
\* arrives during a launch awaits it, so two launches are never in flight at
\* the same time.  (Fails: two waiters of a failed launch both launch.)
C1_SingleFlight == Cardinality(pending) <= 1

\* C2: when a call has returned or failed, every context it created is closed.
\* (Fails: newPage throwing at line 65 leaves the context of line 59 open.)
C2_ContextClosed == \A p \in DOMAIN req : Ended(p) => req[p].ctxOpen = 0

\* C3, as claimed: a call whose third invocation of the engine gave a signal,
\* the first two having given none, ends by returning an Artifact.
C3_ThirdSignalReturns ==
    \A p \in DOMAIN req :
        (Ended(p) /\ req[p].calls = 3 /\ req[p].download # "none") => req[p].pc = "done"

\* C3, amended: the third invocation is made whenever the first two gave no
\* signal, its signal ends the loop and is materialized, and the call then
\* returns an Artifact unless the save or write itself fails; 'download not
\* started' is reported only after three invocations without a signal.
C3_ThirdSignalMaterialized ==
    \A p \in DOMAIN req :
        /\ (req[p].calls = 3 /\ req[p].download # "none") =>
              \/ req[p].pc \in {"materialize", "done"}
              \/ req[p].pc = "failed" /\ req[p].err = "write"
        /\ (req[p].pc = "failed" /\ req[p].err = "notStarted") =>
              req[p].calls = 3 /\ req[p].download = "none"
        /\ req[p].pc = "attempt" => req[p].download = "none" /\ req[p].calls <= 3

C3_Witness ==
    \E p \in DOMAIN req :
        req[p].pc = "done" /\ req[p].calls = 3 /\ req[p].download # "none" /\ req[p].login

\* C4: an invocation that clicked returns the native download if that event
\* came; else the popup's download (its own, else the one after the click in
\* the popup); else the network response; else null, without throwing.  A
\* response is never returned when a native or popup download came.
PopupDownload(f) == f.popup \in {"spont", "ctlDl"}

C6_TmpRemovedOnFailure == \A p \in DOMAIN req : req[p].pc = "failed" => ~req[p].tmp

\* C7: the error of a failed call tells the cause: 'button not found' when
\* every invocation found nothing to click, 'download not started' when the
\* invocations clicked and no signal came.  (Fails: line 199 swallows 'button
\* not found', the call always fails with 'download not started'.)
C7_ErrorTellsCause ==
    \A p \in DOMAIN req :
        (req[p].pc = "failed" /\ req[p].i = 3) =>
            /\ req[p].notFound = 3 => req[p].err = "notFound"
            /\ req[p].notFound = 0 => req[p].err = "notStarted"

\* C8: a caller whose awaited launch failed fails with the launch error and
\* starts no launch of its own.  (Fails: line 12 drops the error and the
\* caller goes on to line 15 and launches.)
C8_FailurePropagates ==
    \A p \in DOMAIN req :
        req[p].sawFail => req[p].pc = "failed" /\ req[p].err = "launch"

\* C9: a call whose URL does not start with http:// or https://, or that
\* lacks a credential, has failed with the configuration error and has
\* created no directory, asked for no browser, launched nothing, made no
\* context and not looked at the snapshot.
C9_FailsBeforeBrowser ==
    \A p \in DOMAIN req :
        req[p].cfgBad =>
            /\ req[p].pc = "failed"
            /\ req[p].err \in {"Invalid template URL", "Missing AIPPT_USERNAME/AIPPT_PASSWORD"}
            /\ ~req[p].touched
            /\ ~req[p].tmp
            /\ req[p].ctxOpen = 0
            /\ req[p].browser = 0
            /\ req[p].awaits = 0

C9_Witness ==
    \E p \in DOMAIN req :
        req[p].cfgBad /\ req[p].pc = "failed" /\ req[p].err = "Invalid template URL"

\* C10: the file name of a response is the value of the content-disposition
\* header when that has one; else the last segment of the URL's path, query
\* left out; else the generic name; and the derivation never fails.
\* (Fails: decodeURIComponent throws on a value such as 50%.pptx.)
C10_FilenameChain ==
    mat.done =>
        LET m == DispositionMatch(mat.hdr, 1)
            last == LastSegment(PathName(mat.url))
        IN /\ ~mat.out.threw
           /\ m # <<>> => mat.out.filename = Decode(Trim(m))
           /\ (m = <<>> /\ last # <<>>) => mat.out.filename = last
           /\ (m = <<>> /\ last = <<>>) => mat.out.filename = GenericName

\* C11: when the header carries both a filename*=UTF-8'' parameter and a
\* plain filename= parameter, in either order, the file name is the decoded
\* filename* value.  (Fails: the pattern matches at the leftmost position, so
\* a plain parameter written first wins.)
StarAt(h) == CHOOSE i \in 1..Len(h) : h[i] = "FNSTAR"

StarValue(h) == SubSeq(h, StarAt(h) + 1, RunEnd(h, StarAt(h) + 1, {";"}))

HasBothParams(h) ==
    /\ \E i \in 1..Len(h) : h[i] = "FNSTAR"
    /\ \E i \in 1..Len(h) : h[i] = "FN"
    /\ StarValue(h) # <<>>

C11_StarPreferred ==
    (mat.done /\ HasBothParams(mat.hdr) /\ ~mat.out.threw) =>
        mat.out.filename = Decode(Trim(StarValue(mat.hdr)))

\* C12: login is required exactly when the page has a button with the
\* combined label or a button whose text holds both words; the call goes to
\* the login form in that case and directly to the download attempts
\* otherwise, and a call that does not require login never reaches the form.
ShowsLoginAndRegister(b) == b \in {"combined", "loginAndRegister"}

C12_LoginDetection ==
    \A p \in DOMAIN req :
        /\ req[p].seen # <<>> =>
              /\ req[p].login = (\E b \in req[p].seen[1] : ShowsLoginAndRegister(b))
              /\ req[p].pc = IF req[p].login THEN "login" ELSE "attempt"
              /\ req[p].calls = IF req[p].login THEN 0 ELSE 1
        /\ req[p].pc \in {"login", "fill", "submit"} => req[p].login

C12_Witness ==
    \E p \in DOMAIN req :
        /\ req[p].seen = <<{"loginOnly"}>>
        /\ ~req[p].login
        /\ req[p].pc = "attempt"

\* C13, as claimed: a login whose submit control is missing, or whose submit
\* click throws, makes the call fail with the authentication error.
SubmitFailed(p) == req[p].submit \in {"noControl", "clickThrew"}

C14_WrittenOnlyAfterLogin ==
    \A p \in DOMAIN req : req[p].wrote => req[p].submit = "accepted"

\* C15: a snapshot file that is missing or corrupt counts as absent: no call
\* fails because of the snapshot.  (Fails: line 59 hands a corrupt file to
\* newContext, which throws on it, at line 63 again, and the call fails.)
C15_SnapshotDegrades == \A p \in DOMAIN req : req[p].err # "snapshot"

\* C16: a context creation that throws is followed by one new request for
\* the browser (the cached one if connected, else a launch) and one more
\* creation; the call fails on a context error only at the second creation,
\* and a third is never made.
CtxStep(p) == req[p].pc = "newContext" /\ req'[p] # req[p]

C16_OneRetry ==
    [][\A p \in DOMAIN req :
          /\ req'[p].ctxTry \in 0..2
          /\ (CtxStep(p) /\ req[p].ctxTry = 1) =>
                \/ req'[p].pc = "newPage" /\ req'[p].ctxOpen = 1
                \/ /\ req'[p].pc = "newContext" /\ req'[p].ctxTry = 2
                   /\ sharedBrowser \in connected
                   /\ req'[p].browser = sharedBrowser
                \/ /\ req'[p].pc = "gsbAwait" /\ req'[p].ctxTry = 1
                   /\ ~(sharedBrowser # 0 /\ sharedBrowser \in connected)
                   /\ req'[p].awaits \in pending'
          /\ (req[p].pc = "gsbAwait" /\ req[p].ctxTry = 1 /\ req'[p] # req[p]) =>
                \/ /\ req'[p].pc = "newContext" /\ req'[p].ctxTry = 2
                   /\ req'[p].browser \in connected'
                \/ req'[p].pc = "gsbAwait" /\ req'[p].ctxTry = 1
                \/ req'[p].pc = "failed" /\ req'[p].err = "launch"
          /\ (CtxStep(p) /\ req[p].ctxTry = 2) =>
                \/ req'[p].pc = "newPage" /\ req'[p].ctxOpen = 1
                \/ req'[p].pc = "failed" /\ req'[p].err \in {"context", "snapshot"}
          /\ (req[p].pc # "failed" /\ req'[p].pc = "failed"
                 /\ req'[p].err \in {"context", "snapshot"}) =>
                req[p].pc = "newContext" /\ req[p].ctxTry = 2]_vars

C16_Witness ==
    \E p \in DOMAIN req :
        req[p].pc = "newContext" /\ req[p].ctxTry = 2 /\ req[p].browser = 2

\* C17: the cached reference never names a disconnected browser (the
\* disconnect clears it); a call is never handed a disconnected browser; and
\* a call that finds neither a cached browser nor a launch in flight starts
\* a launch of its own.
Arrives(p) == req[p].pc \in {"idle", "done", "failed"} /\ req'[p].pc # req[p].pc

C17_FreshAfterDisconnect ==
    [][/\ sharedBrowser' # 0 => sharedBrowser' \in connected'
       /\ \A b \in connected \ connected' : sharedBrowser = b => sharedBrowser' = 0
       /\ \A p \in DOMAIN req :
             /\ (req'[p].browser # req[p].browser /\ req'[p].browser # 0) =>
                   req'[p].browser \in connected'
             /\ (Arrives(p) /\ req'[p].pc # "failed" /\ sharedBrowser = 0
                    /\ launchingBrowser = 0) =>
                   /\ nLaunch' = nLaunch + 1
                   /\ req'[p].pc = "gsbAwait" /\ req'[p].own
                   /\ req'[p].awaits = nLaunch' /\ nLaunch' \in pending']_vars

C17_Witness ==
    \E p, q \in DOMAIN req :
        /\ req[q].browser = 1 /\ 1 \notin connected
        /\ sharedBrowser = 0
        /\ req[p].pc = "gsbAwait" /\ req[p].own /\ req[p].awaits = 2

\* C18: the cleanup of an Artifact can be called again: a call made when the
\* directory is already gone does not raise, and after any call the
\* directory is gone.
C18_CleanupIdempotent ==
    http.cleanups >= 1 => ~http.tmp /\ ~http.threw

C18_Witness == http.cleanups = 2 /\ ~http.tmp /\ ~http.threw

\* C19: however a transfer ends, the handler has called the cleanup exactly
\* once when nothing more can happen, and never calls it twice.  (Fails: the
\* POST handler cleans up in its error and timeout callbacks and again on
\* the response's 'close'; the GET handler cleans up only on the stream's
\* 'close', which never comes when the client goes away.)
TransferOver ==
    /\ http.res \in {"closed", "crashed"}
    /\ http.stream \in (IF http.res = "crashed" THEN {"failed"} ELSE {"closed", "stalled"})
    /\ http.timer # "armed"

C19_CleanupExactlyOnce ==
    /\ http.cleanups <= 1
    /\ TransferOver => http.cleanups = 1 /\ ~http.tmp

\* C20: every call that has started ends, by returning or by failing, on
\* either branch and whatever the listeners of an invocation deliver.
Running(p) == req[p].pc \notin {"idle", "done", "failed"}

C20_NoHang == \A p \in 1..1 : Running(p) ~> Ended(p)

C20_Witness ==
    \E p \in DOMAIN req :
        /\ req[p].pc = "failed" /\ req[p].err = "notStarted"
        /\ req[p].login /\ req[p].calls = 3

\* C21: a call invokes the engine at most 3 times and not again once an
\* invocation gave a signal; a settlement wait lies between two invocations;
\* after 3 invocations without a signal the call fails with 'download not
\* started' and has written no file.
C21_RetryBudget ==
    \A p \in DOMAIN req :
        LET r == req[p] IN
        /\ r.calls <= 3
        /\ r.pc = "attempt" => r.download = "none" /\ r.waits = r.calls - 1
        /\ r.download # "none" =>
              /\ r.pc \in {"materialize", "done", "failed"}
              /\ r.pc = "failed" => r.err = "write"
        /\ r.waits = 3 =>
              r.pc = "failed" /\ r.err = "notStarted" /\ r.download = "none" /\ ~r.file
        /\ (r.pc = "failed" /\ r.err = "notStarted") => r.calls = 3 /\ r.waits = 3

C21_Witness ==
    \E p \in DOMAIN req :
        /\ req[p].pc = "failed" /\ req[p].err = "notStarted"
        /\ ~req[p].login /\ req[p].calls = 3 /\ req[p].waits = 3

\* C22: within an invocation a control is clicked only with the three
\* listeners set up, a listener is awaited only after a click, the last resort
\* runs exactly when none of the six candidates was clicked, and when it
\* clicks nothing either the invocation throws 'button not found' at once,
\* no listener awaited and no signal taken.
C22_SearchClickAwait ==
    [][\A p \in DOMAIN req :
          LET r == req[p]
              n == req'[p]
          IN /\ (r.clickedSel = 0 /\ n.clickedSel # 0) => r.armed /\ ~r.awaited
             /\ (~r.awaited /\ n.awaited) => r.clickedSel # 0 /\ r.armed
             /\ n.pc = "signal" => n.clickedSel # 0 /\ ~n.awaited
             /\ (r.pc = "probe" /\ n.pc = "lastResort") =>
                   r.j = Len(Candidates) /\ n.clickedSel = 0
             /\ (r.pc = "probe" /\ r.j = Len(Candidates) /\ n.clickedSel = 0
                    /\ n # r) => n.pc = "lastResort"
             /\ (r.pc = "lastResort" /\ n.clickedSel = 0 /\ n # r) =>
                   n.pc = "returned" /\ n.threw /\ ~n.awaited
                   /\ n.fired = NoFired /\ n.download = "none"
             /\ (~r.threw /\ n.threw) => r.pc = "lastResort"]_vars

C22_Witness ==
    \E p \in DOMAIN req :
        /\ req[p].pc = "returned" /\ req[p].threw
        /\ req[p].armed /\ ~req[p].awaited /\ req[p].clickedSel = 0

C24_SettlementSwallowed ==
    \A p \in DOMAIN req :
        LET r == req[p] IN
        /\ r.pc = "detect" => r.settle[1] \in SettleFails /\ r.settle[2] = Len(SettleSteps)
        /\ r.pc = "failed" => r.err # "settle"
        /\ (r.pc = "failed" /\ r.err = "navigation") =>
              /\ r.calls = 0 /\ ~r.login /\ r.clicks = <<>>
              /\ r.submit = "none" /\ ~r.wrote /\ ~r.file

C24_Witness ==
    \E p \in DOMAIN req :
        /\ req[p].pc = "detect"
        /\ req[p].settle = <<{"domcontentloaded", "networkidle", "complete", "delay"},
                             Len(SettleSteps)>>

\* C25, as claimed: when a launch fails, the marker no longer names it and no
\* browser is cached, so that the next call has to launch.  (Fails: two
\* waiters of a failed launch both launch; the first launch to succeed is
\* cached while the second is still in flight, and when the second fails a
\* browser is cached.)
C25_FailedLaunchLeavesNothing ==
    [][\A k \in pending :
          (k \notin pending' /\ k \notin connected') =>
             launchingBrowser' # k /\ sharedBrowser' = 0]_vars

\* C27: a disconnect clears the cached reference only when it is the
\* disconnect of the cached browser, and at most one browser launched by the
\* manager is connected.  (Fails: the handler of line 28 clears the reference
\* whichever browser it was registered on, and the launches of two waiters
\* of a failed launch can both succeed.)
C27_OnlyOwnDisconnectClears ==
    [][/\ \A b \in connected \ connected' :
             sharedBrowser # b => sharedBrowser' = sharedBrowser
       /\ Cardinality(connected') <= 1]_vars

\* C26: the file of a response is written inside the temporary directory of
\* the call, whatever name the server gives, and the name is never empty.
\* (Fails: path.join resolves the ".." of a decoded name, and a blank name
\* gives the directory itself.)
C26_PathInsideTmpDir ==
    (mat.done /\ ~mat.out.threw) =>
        /\ mat.out.filename # <<>>
        /\ Len(mat.out.path) > Len(TmpDir)
        /\ SubSeq(mat.out.path, 1, Len(TmpDir)) = TmpDir

\* C30: the engine never clicks the element of the tracking-only candidate
\* when its text lacks the label.  (Fails: the branch of line 130 is empty
\* and the click of line 134 follows it.)
C30_UnlabelledSkipped == \A p \in DOMAIN req : ~req[p].unlabelled

\* C28: with the handlers of part_001, downloads_used of the token never
\* exceeds max_downloads and no more files than that are served for it.
\* (Fails: the count is tested before the acquisition and raised after it.)
C28_UsageWithinMax ==
    tok.server = "part_001" =>
        /\ tok.used <= MaxDownloads
        /\ tok.served <= MaxDownloads

\* C29: a handler starts the acquisition, and sends a file, only for a
\* request whose token isTokenValid accepted.  (Fails: POST
\* /api/aippt-download of part_000 has no token check.)
C29_TokenGated ==
    \A c \in 1..NumClients :
        tok.cl[c].pc \in {"acquiring", "served", "failed"} => tok.cl[c].validated

====
